---- MODULE Spec2Model ----
(***************************************************************************)
(* State-machine model of the paper pipeline front end:                    *)
(*   - utils/storage.ts: the localStorage record store;                    *)
(*   - pages/MinerUExtract.tsx: the extraction page that drives the MinerU *)
(*     job itself (handleStartParse, the mount-time auto start);           *)
(*   - pages/DeepSeekAnalysis.tsx and the extraction page over the API:    *)
(*     the batch handlers, the list refreshes, the stop button;            *)
(*   - the backend service behind api/extraction.ts, which is not part of  *)
(*     the sources and is modelled from its specification.                 *)
(* Every await of the code is a step of its own: the code between two      *)
(* awaits runs to completion before any other callback runs.               *)
(***************************************************************************)
EXTENDS Integers, Sequences, FiniteSets, TLC

\* ------------------------------------------------------------- bounds
MaxDocs == 2        \* records in the store
MaxPending == 1     \* non-terminal answers of a job that answers early
MaxBatches == 1     \* invocations of a batch handler of an API page
MaxRejects == 1     \* requests to the backend that fail for a network reason
RaceDocs == 1       \* records in the store when two runs race

\* ---------------------------------------------------- program constants
maxAttempts == 300  \* MinerUExtract.tsx:81
pageSize == 10      \* DeepSeekAnalysis.tsx:35, part_006:675
limit == 100        \* DeepSeekAnalysis.tsx:131

\* ------------------------------------------------------------- values
None == "none"                       \* an absent optional field / null
NoTask == <<>>                       \* task_id undefined
OldTask == <<"old", 0>>              \* a task_id stored by an earlier session
Markdown == "md"                     \* markdownResult.content

TaskTimeout == "task timeout"        \* '任务超时'                line 94
ParseFailed == "parse failed"        \* '解析失败'                line 99
NoZipUrl == "no zip url"             \* '未获取到 ZIP 文件 URL'   line 103
NoPapers == "no papers to process"   \* '没有待处理的论文'        line 51
NetError == "network error"          \* message of a rejected request
JobMsg == "job error message"        \* a non-empty err_msg of the job

PaperStatus ==
  {"uploading", "uploaded", "parsing", "downloading", "extracted",
   "analyzing", "done", "error"}

Keys == 1..MaxDocs
Runs == {"click", "timer"}           \* the invocations of handleStartParse
TaskIds == Runs \X Keys              \* the id parsePaper returns to run r for key k
ApiKeys == 1..(pageSize + MaxDocs)   \* the keys of the backend's records
Batches == 1..MaxBatches
Pages == 1..((pageSize + MaxDocs + pageSize - 1) \div pageSize)

VARIABLES
  store,             \* localStorage['papers_storage']: sequence of PaperInfo
  papers,            \* useState papers (MinerUExtract.tsx:11)
  processingPapers,  \* useState processingPapers (line 12)
  error,             \* useState error (line 13)
  mounted,           \* the mount effects have run
  timer,             \* the pending setTimeout of the mount effect and its payload
  run,               \* per invocation of handleStartParse: its position and locals
  jobs,              \* the MinerU service: per task id what was asked of it
  patience,          \* how many non-terminal answers the service gives per job
  page,              \* the page that is rendered: "mineru", "deepseek" or "extract"
  server,            \* the backend's Document Record Store
  orch,              \* the backend's orchestrations and Task Registry, per key
  ui,                \* the React state of the API page
  batch,             \* per invocation of a batch handler: its position and locals
  rejects,           \* the requests that have failed for a network reason
  stats              \* what getStatusStats returned to a caller that still holds it

localVars == <<store, papers, processingPapers, error, mounted, timer, run, jobs, patience>>
apiVars == <<page, server, orch, ui, batch, rejects>>
vars == <<localVars, apiVars, stats>>

\* ------------------------------------------------------- utils/storage.ts
PaperInfo(k, st, task, md, err) ==
  [oss_key |-> k, status |-> st, task_id |-> task, markdown_content |-> md,
   error |-> err, uploaded_at |-> k]

\* papers.findIndex(p => p.oss_key === ossKey): 1-based, -1 when absent
RECURSIVE findIndexFrom(_, _, _)
findIndexFrom(s, ossKey, i) ==
  IF i > Len(s) THEN -1
  ELSE IF s[i].oss_key = ossKey THEN i
  ELSE findIndexFrom(s, ossKey, i + 1)

findIndex(s, ossKey) == findIndexFrom(s, ossKey, 1)

\* papersMap.set(paper.oss_key, paper) on the values of the Map in insertion
\* order: a key the Map has keeps its place and takes the new value
MapSet(m, paper) ==
  LET index == findIndex(m, paper.oss_key) IN
  IF index # -1 THEN [m EXCEPT ![index] = paper] ELSE Append(m, paper)

\* lines 54-56: existing.forEach(paper => papersMap.set(paper.oss_key, paper))
RECURSIVE SetAll(_, _)
SetAll(m, existing) ==
  IF existing = <<>> THEN m ELSE SetAll(MapSet(m, Head(existing)), Tail(existing))

\* lines 59-63: papers.forEach(... if (!papersMap.has(paper.oss_key)) set)
RECURSIVE SetAbsent(_, _)
SetAbsent(m, new) ==
  IF new = <<>> THEN m
  ELSE SetAbsent(IF findIndex(m, Head(new).oss_key) = -1 THEN Append(m, Head(new)) ELSE m,
                 Tail(new))

\* An add that appends the new records without looking for their keys.
addPapersAppending(s, new) == s \o new

\* lines 49-66: savePapers(Array.from(papersMap.values()))
addPapers(s, new) == SetAbsent(SetAll(<<>>, s), new)

\* { ...papers[index], ...updates }
Merge(rec, updates) ==
  [f \in DOMAIN rec |-> IF f \in DOMAIN updates THEN updates[f] ELSE rec[f]]

\* An update that stores a record for a key the store does not have.
updatePaperUpsert(s, ossKey, updates) ==
  LET index == findIndex(s, ossKey) IN
  IF index # -1
    THEN [s EXCEPT ![index] = Merge(s[index], updates)]
    ELSE Append(s, Merge(PaperInfo(ossKey, "uploaded", NoTask, None, None), updates))

updatePaper(s, ossKey, updates) ==
  LET index == findIndex(s, ossKey) IN
  IF index # -1
    THEN [s EXCEPT ![index] = Merge(s[index], updates)]
    ELSE s

\* papers.filter(p => p.oss_key !== ossKey)
deletePaper(s, ossKey) ==
  LET Keep(p) == p.oss_key # ossKey IN SelectSeq(s, Keep)

\* papers.filter(p => p.status === status)
getPapersByStatus(s, status) ==
  LET Keep(p) == p.status = status IN SelectSeq(s, Keep)

\* papers.sort((a, b) => timeB - timeA): stable, newest upload first
RECURSIVE InsertDesc(_, _)
InsertDesc(p, sorted) ==
  IF sorted = <<>> THEN <<p>>
  ELSE IF Head(sorted).uploaded_at >= p.uploaded_at
    THEN <<Head(sorted)>> \o InsertDesc(p, Tail(sorted))
    ELSE <<p>> \o sorted

RECURSIVE SortDesc(_)
SortDesc(s) ==
  IF s = <<>> THEN <<>>
  ELSE InsertDesc(s[Len(s)], SortDesc(SubSeq(s, 1, Len(s) - 1)))

getAllPapers(s) == SortDesc(s)

\* No caller holds a result of getStatusStats.
NoStats ==
  [total |-> -1, uploading |-> 0, uploaded |-> 0, parsing |-> 0, downloading |-> 0,
   extracted |-> 0, analyzing |-> 0, done |-> 0, error |-> 0]

\* A count of 'done' that filters on the status above it in the list.
getStatusStatsMiscounted(s) ==
  [total |-> Len(s),
   uploading |-> Len(getPapersByStatus(s, "uploading")),
   uploaded |-> Len(getPapersByStatus(s, "uploaded")),
   parsing |-> Len(getPapersByStatus(s, "parsing")),
   downloading |-> Len(getPapersByStatus(s, "downloading")),
   extracted |-> Len(getPapersByStatus(s, "extracted")),
   analyzing |-> Len(getPapersByStatus(s, "analyzing")),
   done |-> Len(getPapersByStatus(s, "analyzing")),
   error |-> Len(getPapersByStatus(s, "error"))]

\* lines 133-146: getStatusStats
getStatusStats(s) ==
  [total |-> Len(s),
   uploading |-> Len(getPapersByStatus(s, "uploading")),
   uploaded |-> Len(getPapersByStatus(s, "uploaded")),
   parsing |-> Len(getPapersByStatus(s, "parsing")),
   downloading |-> Len(getPapersByStatus(s, "downloading")),
   extracted |-> Len(getPapersByStatus(s, "extracted")),
   analyzing |-> Len(getPapersByStatus(s, "analyzing")),
   done |-> Len(getPapersByStatus(s, "done")),
   error |-> Len(getPapersByStatus(s, "error"))]

KeysOf(s) == [i \in 1..Len(s) |-> s[i].oss_key]
Range(s) == {s[i] : i \in 1..Len(s)}

\* The record of key k, or a record of status "absent" when the store has none.
Absent(k) == PaperInfo(k, "absent", NoTask, None, None)
Rec(k) ==
  LET index == findIndex(store, k) IN
  IF index # -1 THEN store[index] ELSE Absent(k)

\* ------------------------------------------- pages/MinerUExtract.tsx
\* The locals of one invocation of handleStartParse, suspended at an await.
\*   pc: "idle" (not invoked), "parse" (await parsePaper), "poll" (await the
\*   10 s sleep and getTaskStatus), "polled" (between lines 91 and 93),
\*   "download" (await downloadAndExtract), "markdown" (await getMarkdown),
\*   "delete" (await deleteFile), "done" (returned).
\*   asked: the papers parsePaper was called for; failed: the papers whose
\*   catch block ran (both kept for the record only, the code does not read them).
IdleRun ==
  [pc |-> "idle", targets |-> <<>>, i |-> 0, taskId |-> NoTask, attempts |-> 0,
   state |-> None, zip |-> FALSE, err_msg |-> None, asked |-> <<>>, failed |-> {}]

\* What has been asked of the service for one task id: parsePaper answered
\* with it, the status queries and the last answer, downloadAndExtract and
\* getMarkdown were called with it, the record written with its content, and
\* how the deleteFile of its paper ended ("deleted" or "failed").
NewJob ==
  [submitted |-> FALSE, queries |-> 0, last |-> None, err_msg |-> None,
   downloaded |-> FALSE, fetched |-> FALSE, persisted |-> FALSE, blob |-> None]

Paper(r) == run[r].targets[run[r].i]

Active(r) == run[r].pc \notin {"idle", "done"}

\* No callback is between two statements of a synchronous block.
NoSync == \A q \in Runs : run[q].pc # "polled"

\* lines 58-61: targetPapers.forEach(... updatePaper(paper.oss_key, {status: 'parsing'}))
RECURSIVE MarkParsing(_, _)
MarkParsing(s, targets) ==
  IF targets = <<>> THEN s
  ELSE MarkParsing(updatePaper(s, Head(targets), [status |-> "parsing"]), Tail(targets))

\* The for loop's step to the next paper (line 64), or the return.
NextPaper(r) ==
  IF run[r].i < Len(run[r].targets)
    THEN [IdleRun EXCEPT !.pc = "parse", !.targets = run[r].targets, !.i = run[r].i + 1,
                         !.asked = Append(run[r].asked, run[r].targets[run[r].i + 1]),
                         !.failed = run[r].failed]
    ELSE [IdleRun EXCEPT !.pc = "done", !.targets = run[r].targets, !.i = run[r].i,
                         !.asked = run[r].asked, !.failed = run[r].failed]

\* A catch block that rethrows: the error leaves the for loop and the handler.
AfterCatchRethrows(r) ==
  [IdleRun EXCEPT !.pc = "done", !.targets = run[r].targets, !.i = run[r].i,
                  !.asked = run[r].asked, !.failed = run[r].failed \cup {Paper(r)}]

\* A try/catch around each step instead of one around the paper: after the
\* catch the run goes on with the same paper at the fetch of the content.
AfterCatchResumes(r) ==
  [run[r] EXCEPT !.pc = "markdown", !.failed = run[r].failed \cup {Paper(r)}]

\* lines 144-156: the catch block swallows the error, the loop goes on
AfterCatch(r) == [NextPaper(r) EXCEPT !.failed = run[r].failed \cup {Paper(r)}]

\* lines 47-67: handleStartParse up to its first await
StartParse(r, targetPapers) ==
  IF Len(targetPapers) = 0
    THEN /\ error' = NoPapers
         /\ run' = [run EXCEPT ![r] = [IdleRun EXCEPT !.pc = "done"]]
         /\ UNCHANGED <<store, processingPapers>>
    ELSE /\ error' = None
         /\ processingPapers' = processingPapers \cup Range(targetPapers)
         /\ store' = MarkParsing(store, targetPapers)
         /\ run' = [run EXCEPT ![r] =
                      [IdleRun EXCEPT !.pc = "parse", !.targets = targetPapers, !.i = 1,
                                      !.asked = <<targetPapers[1]>>]]

\* lines 144-156: the catch block of one paper, then the next paper
Catch(r, s, errorMessage) ==
  /\ store' = updatePaper(s, Paper(r), [status |-> "error", error |-> errorMessage])
  /\ processingPapers' = processingPapers \ {Paper(r)}
  /\ papers' = getAllPapers(store')
  /\ run' = [run EXCEPT ![r] = AfterCatch(r)]

\* lines 23-44: the two mount effects. The second one reads the papers of
\* the render it was created in.
MountEffects ==
  /\ page = "mineru"
  /\ ~mounted
  /\ mounted' = TRUE
  /\ papers' = getAllPapers(store)
  /\ LET uploadedPapers == getPapersByStatus(store, "uploaded")
         Interrupted(p) == p.status = "parsing" \/ p.status = "downloading"
         parsingPapers == SelectSeq(papers, Interrupted)
         papersToProcess == uploadedPapers \o parsingPapers
     IN  timer' = IF Len(uploadedPapers) > 0 \/ Len(parsingPapers) > 0
                    THEN [set |-> TRUE, payload |-> KeysOf(papersToProcess)]
                    ELSE [set |-> FALSE, payload |-> <<>>]
  /\ UNCHANGED <<store, processingPapers, error, run, jobs, patience, apiVars, stats>>

\* lines 38-40: the timer of the mount effect fires
TimerFire ==
  /\ timer.set
  /\ NoSync
  /\ timer' = [set |-> FALSE, payload |-> <<>>]
  /\ StartParse("timer", timer.payload)
  /\ UNCHANGED <<papers, mounted, jobs, patience, apiVars, stats>>

\* lines 185-192: the start button is rendered and enabled
ButtonEnabled ==
  /\ Len(getPapersByStatus(store, "uploaded")) > 0
  /\ ~(Cardinality(processingPapers) > 0)

\* line 187: onClick={() => handleStartParse()}
Click ==
  /\ mounted
  /\ NoSync
  /\ run["click"].pc = "idle"
  /\ ButtonEnabled
  /\ StartParse("click", KeysOf(getPapersByStatus(store, "uploaded")))
  /\ UNCHANGED <<papers, mounted, timer, jobs, patience, apiVars, stats>>

\* The job id read back from the record store instead of the local constant.
StoredJobId(r) == Rec(Paper(r)).task_id

\* line 72: const taskId = parseResult.task_id, the id lines 85, 112 and 116
\* pass to getTaskStatus, downloadAndExtract and getMarkdown
JobId(r) == run[r].taskId

\* lines 67-76: parsePaper returns or throws
ParseReturn(r) ==
  /\ run[r].pc = "parse"
  /\ NoSync
  /\ \E ok \in BOOLEAN :
       IF ok
         THEN LET taskId == <<r, Paper(r)>> IN
              /\ jobs' = [jobs EXCEPT ![taskId].submitted = TRUE]
              /\ store' = updatePaper(store, Paper(r),
                                      [task_id |-> taskId, status |-> "parsing"])
              /\ run' = [run EXCEPT ![r].pc = "poll", ![r].taskId = taskId]
              /\ UNCHANGED <<papers, processingPapers>>
         ELSE /\ Catch(r, store, NetError)
              /\ UNCHANGED jobs
  /\ UNCHANGED <<error, mounted, timer, patience, apiVars, stats>>

\* What getTaskStatus answers.
Answers ==
  { [state |-> "pending", zip |-> FALSE, err_msg |-> None],
    [state |-> "done", zip |-> TRUE, err_msg |-> None],
    [state |-> "done", zip |-> FALSE, err_msg |-> None],
    [state |-> "error", zip |-> FALSE, err_msg |-> JobMsg],
    [state |-> "error", zip |-> FALSE, err_msg |-> None] }

Terminal(state) == state = "done" \/ state = "error"

\* The service: the q-th query of a job may be answered "pending" while
\* q <= patience; it is answered otherwise, or fails, only early (within the
\* first MaxPending + 1 queries) or from query maxAttempts on.
MayPend(q) == q <= patience
MayEnd(q) == q <= MaxPending + 1 \/ q >= maxAttempts

\* lines 84-91: the sleep, the status query, the re-persisted status
PollReturn(r) ==
  /\ run[r].pc = "poll"
  /\ NoSync
  /\ LET t == JobId(r)
         q == jobs[t].queries + 1
     IN
     \/ /\ MayEnd(q)
        /\ jobs' = [jobs EXCEPT ![t].queries = q, ![t].last = "threw"]
        /\ Catch(r, store, NetError)
     \/ \E a \in Answers :
          /\ IF Terminal(a.state) THEN MayEnd(q) ELSE MayPend(q)
          /\ jobs' = [jobs EXCEPT ![t].queries = q,
                                  ![t].last = a.state,
                                  ![t].err_msg = a.err_msg]
          /\ store' = updatePaper(store, Paper(r),
                         [task_id |-> t,
                          status |-> IF a.state = "done" THEN "extracted" ELSE "parsing"])
          /\ run' = [run EXCEPT ![r].pc = "polled",
                                ![r].attempts = @ + 1,
                                ![r].state = a.state,
                                ![r].zip = a.zip,
                                ![r].err_msg = a.err_msg]
          /\ UNCHANGED <<papers, processingPapers>>
  /\ UNCHANGED <<error, mounted, timer, patience, apiVars, stats>>

\* A slip of line 93: the cap compared with > instead of >=.
TimedOutLate(attempts) == attempts > maxAttempts

\* line 93
TimedOut(attempts) == attempts >= maxAttempts

\* line 96: while (taskStatus.state !== 'done' && taskStatus.state !== 'error')
LoopContinues(state) == state # "done" /\ state # "error"

\* line 99: taskStatus.err_msg || '解析失败'
FailureReason(err_msg) == IF err_msg # None THEN err_msg ELSE ParseFailed

\* lines 93-107: the rest of the loop body, the checks after the loop
PollCheck(r) ==
  /\ run[r].pc = "polled"
  /\ IF TimedOut(run[r].attempts)
       THEN Catch(r, store, TaskTimeout) /\ UNCHANGED jobs
     ELSE IF LoopContinues(run[r].state)
       THEN /\ run' = [run EXCEPT ![r].pc = "poll"]
            /\ UNCHANGED <<store, papers, processingPapers, jobs>>
     ELSE IF run[r].state = "error"
       THEN Catch(r, store, FailureReason(run[r].err_msg)) /\ UNCHANGED jobs
     ELSE IF ~run[r].zip
       THEN Catch(r, store, NoZipUrl) /\ UNCHANGED jobs
     ELSE /\ store' = updatePaper(store, Paper(r), [status |-> "downloading"])
          /\ jobs' = [jobs EXCEPT ![JobId(r)].downloaded = TRUE]
          /\ run' = [run EXCEPT ![r].pc = "download"]
          /\ UNCHANGED <<papers, processingPapers>>
  /\ UNCHANGED <<error, mounted, timer, patience, apiVars, stats>>

\* lines 110-113: downloadAndExtract returns or throws
DownloadReturn(r) ==
  /\ run[r].pc = "download"
  /\ NoSync
  /\ \E ok \in BOOLEAN :
       IF ok
         THEN /\ run' = [run EXCEPT ![r].pc = "markdown"]
              /\ jobs' = [jobs EXCEPT ![JobId(r)].fetched = TRUE]
              /\ UNCHANGED <<store, papers, processingPapers>>
         ELSE Catch(r, store, NetError) /\ UNCHANGED jobs
  /\ UNCHANGED <<error, mounted, timer, patience, apiVars, stats>>

\* lines 116-124: getMarkdown returns or throws
MarkdownReturn(r) ==
  /\ run[r].pc = "markdown"
  /\ NoSync
  /\ \E ok \in BOOLEAN :
       IF ok
         THEN /\ store' = updatePaper(store, Paper(r),
                             [task_id |-> run[r].taskId, status |-> "extracted",
                              markdown_content |-> Markdown])
              /\ jobs' = [jobs EXCEPT ![JobId(r)].persisted = TRUE]
              /\ run' = [run EXCEPT ![r].pc = "delete"]
              /\ UNCHANGED <<papers, processingPapers>>
         ELSE Catch(r, store, NetError) /\ UNCHANGED jobs
  /\ UNCHANGED <<error, mounted, timer, patience, apiVars, stats>>

\* lines 127-132: deletePaperStorage runs only when deleteFile has not thrown
AfterDeleteFile(s, ossKey, ok) == IF ok THEN deletePaper(s, ossKey) ELSE s

\* lines 127-142: deleteFile returns or throws, the paper is finished
DeleteReturn(r) ==
  /\ run[r].pc = "delete"
  /\ NoSync
  /\ \E ok \in BOOLEAN :
       /\ store' = AfterDeleteFile(store, Paper(r), ok)
       /\ jobs' = [jobs EXCEPT ![JobId(r)].blob = IF ok THEN "deleted" ELSE "failed"]
  /\ processingPapers' = processingPapers \ {Paper(r)}
  /\ papers' = getAllPapers(store')
  /\ run' = [run EXCEPT ![r] = NextPaper(r)]
  /\ UNCHANGED <<error, mounted, timer, patience, apiVars, stats>>

\* ------------------------------------------- the backend service
\* The record the listing returns for a document (PaperInfo of the API).
Document(k, st) == [oss_key |-> k, status |-> st, error |-> None]

Min(a, b) == IF a < b THEN a ELSE b

\* GET /v1/papers?status=&offset=&limit=
ListDocuments(srv, statuses, offset, lim) ==
  LET Keep(p) == p.status \in statuses
      all == SelectSeq(srv, Keep)
  IN  [items |-> SubSeq(all, offset + 1, Min(offset + lim, Len(all))),
       total |-> Len(all)]

DocIndex(srv, k) == findIndex(srv, k)
Doc(k) == server[DocIndex(server, k)]
ServerKeys == {server[i].oss_key : i \in 1..Len(server)}

\* A status transition of one Document Record.
Transition(srv, k, st, err) ==
  [srv EXCEPT ![DocIndex(srv, k)] = [@ EXCEPT !.status = st, !.error = err]]

\* The orchestration of one document: its TaskHandle (pc # "none"), the
\* cancellation signal, and for the record: how the last run ended, whether
\* a run called a collaborator after its cancellation was signalled, and
\* whether the page has been told that its stop request succeeded.
NoRun ==
  [pc |-> "none", cancel |-> FALSE, outcome |-> None, late |-> FALSE,
   stopAcked |-> FALSE]

\* POST /v1/papers/{key}/extraction or /analysis is accepted: the document
\* is in the source state and no TaskHandle exists for it.
CanStart(srv, o, k, source) ==
  /\ DocIndex(srv, k) # -1
  /\ srv[DocIndex(srv, k)].status = source
  /\ o[k].pc = "none"

\* runExtraction / runAnalysis up to the first suspension point
Started(o, k, first) == [o EXCEPT ![k] = [NoRun EXCEPT !.pc = first]]

\* Task Registry cancel(doc_key): a no-op without a handle
cancel(o, k) == IF o[k].pc # "none" THEN [o EXCEPT ![k].cancel = TRUE] ELSE o

\* The orchestration observes a cancellation before each step.
Observes(o) == o.cancel

\* One step of the orchestration of document k.
OrchStep(k) ==
  /\ k \in ServerKeys
  /\ orch[k].pc # "none"
  /\ IF Observes(orch[k])
       THEN /\ server' = Transition(server, k,
                           IF orch[k].pc = "analyze" THEN "extracted" ELSE "uploaded",
                           None)
            /\ orch' = [orch EXCEPT ![k].pc = "none", ![k].cancel = FALSE,
                                    ![k].outcome = "canceled"]
       ELSE \E ok \in BOOLEAN :
              LET called == [orch EXCEPT ![k].late = @ \/ orch[k].cancel]
                  failed == [called EXCEPT ![k].pc = "none", ![k].cancel = FALSE,
                                           ![k].outcome = "failed"]
              IN
              IF ~ok
                THEN /\ server' = Transition(server, k, "error", JobMsg)
                     /\ orch' = failed
              ELSE CASE orch[k].pc = "submit" ->
                          /\ server' = server
                          /\ orch' = [called EXCEPT ![k].pc = "poll"]
                     [] orch[k].pc = "poll" ->
                          \/ /\ server' = Transition(server, k, "parsing", None)
                             /\ orch' = called
                          \/ /\ server' = Transition(server, k, "downloading", None)
                             /\ orch' = [called EXCEPT ![k].pc = "materialize"]
                     [] orch[k].pc = "materialize" ->
                          /\ server' = Transition(server, k, "extracted", None)
                          /\ orch' = [called EXCEPT ![k].pc = "none",
                                                    ![k].outcome = "succeeded"]
                     [] orch[k].pc = "analyze" ->
                          /\ server' = Transition(server, k, "done", None)
                          /\ orch' = [called EXCEPT ![k].pc = "none",
                                                    ![k].outcome = "succeeded"]
  /\ UNCHANGED <<page, ui, batch, rejects, localVars, stats>>

\* ----------------------------------------------- api/extraction.ts
\* What the three requests do to the service when they are accepted.
startExtraction(o, ossKey) == Started(o, ossKey, "submit")

\* A stop request that never reaches the service.
stopExtractionUnsent(o, ossKey) == o

stopExtraction(o, ossKey) == cancel(o, ossKey)

startAnalysis(o, ossKey) == Started(o, ossKey, "analyze")

\* ------------------------------- the state the two API pages share
ApiError(kind, k) == [kind |-> kind, key |-> k]
NoApiError == ApiError("null", 0)

IdleUi ==
  [papers |-> <<>>, total |-> 0, currentPage |-> 1, initialLoading |-> TRUE,
   error |-> NoApiError, processingOssKeys |-> {}, hasExtractedPapers |-> FALSE]

\* The locals of one invocation of a batch handler, suspended at an await.
\*   pc: "idle", "list" (await getAllPapers in getAllExtractedPapers),
\*   "startAnalysis", "pace" (await the 500 ms), "refresh" (await loadPapers),
\*   "startExtraction"; the locals are gone when the handler returns.
\*   eligible: the keys in the source state when the handler was invoked;
\*   asked: the keys of its start requests in order; failed: the keys whose
\*   catch block ran (these three are kept for the record only).
IdleBatch ==
  [pc |-> "idle", list |-> <<>>, i |-> 0, offset |-> 0, eligible |-> {},
   asked |-> <<>>, failed |-> {}]

\* The handler is invoked with fresh locals.
FirstIdle(b) == batch[b].pc = "idle" /\ \A c \in Batches : c < b => batch[c].pc # "idle"

\* The handler returns.
Returned(bt, b) == [bt EXCEPT ![b] = IdleBatch]

KeysIn(srv, st) == {srv[i].oss_key : i \in {j \in 1..Len(srv) : srv[j].status = st}}

\* A request fails for a reason of the network.
MayReject == rejects < MaxRejects

\* ------------------------------------------ pages/DeepSeekAnalysis.tsx
\* lines 44-47: loadPapers up to its first await
loadPapersBegin(u, silent) ==
  [u EXCEPT !.initialLoading = IF silent THEN @ ELSE TRUE, !.error = NoApiError]

\* lines 52-86: loadPapers from its first await on (ok: the listing answers,
\* ok2: the second listing answers)
loadPapersEnd(u, silent, srv, ok, ok2) ==
  LET response == ListDocuments(srv, {"extracted", "analyzing", "done"},
                                (u.currentPage - 1) * pageSize, pageSize)
      hasExtracted == \E i \in 1..Len(response.items) :
                        response.items[i].status = "extracted"
      extractedResponse == ListDocuments(srv, {"extracted"}, 0, 1)
      loaded ==
        IF ok
          THEN [u EXCEPT !.papers = response.items,
                         !.total = response.total,
                         !.hasExtractedPapers =
                            IF ~hasExtracted /\ ~silent
                              THEN ok2 /\ extractedResponse.total > 0
                              ELSE hasExtracted]
          ELSE [u EXCEPT !.error = ApiError(NetError, 0)]
  IN  [loaded EXCEPT !.initialLoading = IF silent THEN @ ELSE FALSE]

Refreshing == \E b \in Batches : batch[b].pc = "refresh"

\* lines 90-92: the initial load
DeepSeekMount ==
  /\ page = "deepseek"
  /\ ui.initialLoading
  /\ ~Refreshing
  /\ \E ok, ok2 \in BOOLEAN :
       ui' = loadPapersEnd(loadPapersBegin(ui, FALSE), FALSE, server, ok, ok2)
  /\ UNCHANGED <<page, server, orch, batch, rejects, localVars, stats>>

\* lines 95-103: the silent refresh of the 2 s interval
DeepSeekPoll ==
  /\ page = "deepseek"
  /\ ~ui.initialLoading
  /\ \E ok \in BOOLEAN :
       ui' = loadPapersEnd(loadPapersBegin(ui, TRUE), TRUE, server, ok, TRUE)
  /\ UNCHANGED <<page, server, orch, batch, rejects, localVars, stats>>

\* lines 230 and 299-300: the row of ossKey shows its start button
canAnalyzeNow(u, ossKey) ==
  /\ \E i \in 1..Len(u.papers) :
       u.papers[i].oss_key = ossKey /\ u.papers[i].status = "extracted"
  /\ ossKey \notin u.processingOssKeys

\* lines 111-125: handleStartAnalysis, startAnalysis answers (and the list is
\* reloaded) or throws
handleStartAnalysis(ossKey) ==
  /\ page = "deepseek"
  /\ ~ui.initialLoading
  /\ canAnalyzeNow(ui, ossKey)
  /\ \/ /\ CanStart(server, orch, ossKey, "extracted")
        /\ server' = Transition(server, ossKey, "analyzing", None)
        /\ orch' = startAnalysis(orch, ossKey)
        /\ \E ok, ok2 \in BOOLEAN :
             ui' = loadPapersEnd(
                     loadPapersBegin([ui EXCEPT !.processingOssKeys = @ \cup {ossKey}], FALSE),
                     FALSE, server', ok, ok2)
        /\ UNCHANGED rejects
     \/ /\ ~CanStart(server, orch, ossKey, "extracted") \/ MayReject
        /\ rejects' = IF CanStart(server, orch, ossKey, "extracted")
                        THEN rejects + 1 ELSE rejects
        /\ ui' = [ui EXCEPT !.error = ApiError("analysis start failed", ossKey),
                            !.processingOssKeys = @ \ {ossKey}]
        /\ UNCHANGED <<server, orch>>
  /\ UNCHANGED <<page, batch, localVars, stats>>

\* line 251: disabled={!hasExtractedPapers || processingOssKeys.size > 0}
StartAllDisabled == ~ui.hasExtractedPapers \/ Cardinality(ui.processingOssKeys) > 0

\* lines 160-164 and the button of lines 248-250: handleStartAllAnalysis up
\* to its first await
StartAllAnalysis(b) ==
  /\ page = "deepseek"
  /\ FirstIdle(b)
  /\ ~StartAllDisabled
  /\ ui' = [ui EXCEPT !.error = NoApiError]
  /\ batch' = [batch EXCEPT ![b] = [IdleBatch EXCEPT !.pc = "list",
                                                     !.eligible = KeysIn(server, "extracted")]]
  /\ UNCHANGED <<page, server, orch, rejects, localVars, stats>>

\* The for loop of lines 172-188 takes its next paper, or the handler goes
\* on to line 191.
NextAnalysis(b, u, bt) ==
  IF bt[b].i < Len(bt[b].list)
    THEN LET paper == bt[b].list[bt[b].i + 1] IN
         /\ ui' = [u EXCEPT !.processingOssKeys = @ \cup {paper}]
         /\ batch' = [bt EXCEPT ![b].pc = "startAnalysis",
                                ![b].i = @ + 1,
                                ![b].asked = Append(@, paper)]
    ELSE /\ ui' = loadPapersBegin(u, FALSE)
         /\ batch' = [bt EXCEPT ![b].pc = "refresh"]

\* A loop that also stops on a full page.
lastPageAlsoWhenFull(items) == Len(items) <= limit

\* lines 143-146: if (response.items.length < limit) break
lastPage(items) == Len(items) < limit

\* lines 128-157 and 166-175: a page of getAllExtractedPapers arrives or the
\* request fails; with the list complete the loop starts its first paper
ExtractedPapersReturn(b) ==
  /\ batch[b].pc = "list"
  /\ \E ok \in BOOLEAN :
       /\ ~ok => MayReject
       /\ rejects' = IF ok THEN rejects ELSE rejects + 1
       /\ LET response == ListDocuments(server, {"extracted"}, batch[b].offset, limit)
              allPapers == IF ok THEN batch[b].list \o KeysOf(response.items)
                                 ELSE batch[b].list
              u == IF ok THEN ui ELSE [ui EXCEPT !.error = ApiError("list failed", 0)]
          IN
          IF ok /\ ~lastPage(response.items)
            THEN /\ batch' = [batch EXCEPT ![b].list = allPapers, ![b].offset = @ + limit]
                 /\ ui' = u
          ELSE IF Len(allPapers) = 0
            THEN /\ ui' = [u EXCEPT !.error = ApiError("no papers to analyze", 0)]
                 /\ batch' = Returned(batch, b)
          ELSE /\ ui' = [u EXCEPT !.processingOssKeys = @ \cup {allPapers[1]}]
               /\ batch' = [batch EXCEPT ![b].pc = "startAnalysis",
                                         ![b].list = allPapers,
                                         ![b].i = 1,
                                         ![b].asked = <<allPapers[1]>>]
  /\ UNCHANGED <<page, server, orch, localVars, stats>>

\* lines 175-187: startAnalysis answers or throws
StartAnalysisReturn(b) ==
  /\ batch[b].pc = "startAnalysis"
  /\ LET paper == batch[b].list[batch[b].i] IN
     \/ /\ CanStart(server, orch, paper, "extracted")
        /\ server' = Transition(server, paper, "analyzing", None)
        /\ orch' = startAnalysis(orch, paper)
        /\ batch' = [batch EXCEPT ![b].pc = "pace"]
        /\ UNCHANGED <<ui, rejects>>
     \/ /\ ~CanStart(server, orch, paper, "extracted") \/ MayReject
        /\ rejects' = IF CanStart(server, orch, paper, "extracted")
                        THEN rejects + 1 ELSE rejects
        /\ NextAnalysis(b, [ui EXCEPT !.error = ApiError("analysis start failed", paper),
                                      !.processingOssKeys = @ \ {paper}],
                           [batch EXCEPT ![b].failed = @ \cup {paper}])
        /\ UNCHANGED <<server, orch>>
  /\ UNCHANGED <<page, localVars, stats>>

\* line 177: the 500 ms have passed
PacingDone(b) ==
  /\ batch[b].pc = "pace"
  /\ NextAnalysis(b, ui, batch)
  /\ UNCHANGED <<page, server, orch, rejects, localVars, stats>>

\* line 191: the loadPapers of the handler returns
RefreshReturn(b) ==
  /\ batch[b].pc = "refresh"
  /\ \E ok, ok2 \in BOOLEAN : ui' = loadPapersEnd(ui, FALSE, server, ok, ok2)
  /\ batch' = Returned(batch, b)
  /\ UNCHANGED <<page, server, orch, rejects, localVars, stats>>

\* ------------------------------ the extraction page over the API (part_006)
\* lines 684-700: loadPapers (ok: the listing answers)
loadPapers(u, silent, srv, ok) ==
  LET response == ListDocuments(srv, PaperStatus, (u.currentPage - 1) * pageSize, pageSize)
      loaded == IF ok THEN [u EXCEPT !.papers = response.items, !.total = response.total]
                      ELSE u
  IN  [loaded EXCEPT !.initialLoading = IF silent THEN @ ELSE FALSE]

\* lines 703-705: the initial load
ExtractMount ==
  /\ page = "extract"
  /\ ui.initialLoading
  /\ \E ok \in BOOLEAN : ui' = loadPapers(ui, FALSE, server, ok)
  /\ UNCHANGED <<page, server, orch, batch, rejects, localVars, stats>>

\* lines 708-715, 753, 765: a refresh of the list after the initial load
ExtractPoll ==
  /\ page = "extract"
  /\ ~ui.initialLoading
  /\ \E ok \in BOOLEAN : ui' = loadPapers(ui, TRUE, server, ok)
  /\ UNCHANGED <<page, server, orch, batch, rejects, localVars, stats>>

\* line 723
totalPages(u) == (u.total + pageSize - 1) \div pageSize

\* lines 703-705, 718-720: handlePageChange, then the load of the new page
handlePageChange(p) ==
  /\ page = "extract"
  /\ ~ui.initialLoading
  /\ p \in 1..totalPages(ui)
  /\ p # ui.currentPage
  /\ \E ok \in BOOLEAN :
       ui' = loadPapers([ui EXCEPT !.currentPage = p], FALSE, server, ok)
  /\ UNCHANGED <<page, server, orch, batch, rejects, localVars, stats>>

\* line 727 and 823: papers.filter(p => p.status === 'uploaded')
uploadedOnPage(u) == getPapersByStatus(u.papers, "uploaded")

\* lines 726-740 and the button of lines 838-839: handleStartParse up to its
\* first await
StartAllExtraction(b) ==
  /\ page = "extract"
  /\ FirstIdle(b)
  /\ ~(Len(uploadedOnPage(ui)) = 0 \/ Cardinality(ui.processingOssKeys) > 0)
  /\ LET list == KeysOf(uploadedOnPage(ui)) IN
     IF Len(list) = 0
       THEN /\ ui' = [ui EXCEPT !.error = ApiError(NoPapers, 0)]
            /\ batch' = Returned(batch, b)
       ELSE /\ ui' = [ui EXCEPT !.error = NoApiError,
                                !.processingOssKeys = @ \cup {list[1]}]
            /\ batch' = [batch EXCEPT ![b] =
                           [IdleBatch EXCEPT !.pc = "startExtraction",
                                             !.list = list,
                                             !.i = 1,
                                             !.eligible = KeysIn(server, "uploaded"),
                                             !.asked = <<list[1]>>]]
  /\ UNCHANGED <<page, server, orch, rejects, localVars, stats>>

\* The for loop of lines 737-750 takes its next paper, or the handler returns.
NextExtraction(b, u, bt) ==
  IF bt[b].i < Len(bt[b].list)
    THEN LET paper == bt[b].list[bt[b].i + 1] IN
         /\ ui' = [u EXCEPT !.processingOssKeys = @ \cup {paper}]
         /\ batch' = [bt EXCEPT ![b].i = @ + 1, ![b].asked = Append(@, paper)]
    ELSE /\ ui' = u
         /\ batch' = Returned(bt, b)

\* lines 740-749: startExtraction answers or throws
StartExtractionReturn(b) ==
  /\ batch[b].pc = "startExtraction"
  /\ LET paper == batch[b].list[batch[b].i] IN
     \/ /\ CanStart(server, orch, paper, "uploaded")
        /\ server' = Transition(server, paper, "parsing", None)
        /\ orch' = startExtraction(orch, paper)
        /\ NextExtraction(b, ui, batch)
        /\ UNCHANGED rejects
     \/ /\ ~CanStart(server, orch, paper, "uploaded") \/ MayReject
        /\ rejects' = IF CanStart(server, orch, paper, "uploaded")
                        THEN rejects + 1 ELSE rejects
        /\ NextExtraction(b, [ui EXCEPT !.error = ApiError(NetError, 0),
                                        !.processingOssKeys = @ \ {paper}],
                             [batch EXCEPT ![b].failed = @ \cup {paper}])
        /\ UNCHANGED <<server, orch>>
  /\ UNCHANGED <<page, localVars, stats>>

\* lines 893 and 926-928: the stop button of a row is shown
isExtracting(status) == status = "parsing" \/ status = "downloading"

\* lines 757-770: handleStopParse, stopExtraction answers or throws
handleStopParse(ossKey) ==
  /\ page = "extract"
  /\ ~ui.initialLoading
  /\ \E i \in 1..Len(ui.papers) :
       ui.papers[i].oss_key = ossKey /\ isExtracting(ui.papers[i].status)
  /\ \/ /\ orch' = [stopExtraction(orch, ossKey) EXCEPT ![ossKey].stopAcked = TRUE]
        /\ ui' = [ui EXCEPT !.processingOssKeys = @ \ {ossKey}]
        /\ UNCHANGED rejects
     \/ /\ MayReject
        /\ rejects' = rejects + 1
        /\ ui' = [ui EXCEPT !.error = ApiError(NetError, 0)]
        /\ UNCHANGED orch
  /\ UNCHANGED <<page, server, batch, localVars, stats>>

\* --------------- the earlier extraction page over the API (part_006, 282-662)
\* line 293
pageSize2 == 20

\* lines 301-313: loadPapers (ok: the listing answers; a failure is only logged)
loadPapers2(u, srv, ok) ==
  LET response == ListDocuments(srv, PaperStatus, (u.currentPage - 1) * pageSize2, pageSize2)
  IN  IF ok THEN [u EXCEPT !.papers = response.items, !.total = response.total]
            ELSE u

\* lines 315-320 and 359: the load at mount, every 2 s and after a batch
Extract2Load ==
  /\ page = "extract2"
  /\ \E ok \in BOOLEAN : ui' = loadPapers2(ui, server, ok)
  /\ UNCHANGED <<page, server, orch, batch, rejects, localVars, stats>>

\* lines 331-345 and the button of lines 435-436: handleStartParse up to its
\* first await
StartAllExtraction2(b) ==
  /\ page = "extract2"
  /\ FirstIdle(b)
  /\ ~(Cardinality(ui.processingOssKeys) > 0)
  /\ LET list == KeysOf(uploadedOnPage(ui)) IN
     IF Len(list) = 0
       THEN /\ ui' = [ui EXCEPT !.error = ApiError(NoPapers, 0)]
            /\ batch' = Returned(batch, b)
       ELSE /\ ui' = [ui EXCEPT !.error = NoApiError,
                                !.processingOssKeys = @ \cup {list[1]}]
            /\ batch' = [batch EXCEPT ![b] =
                           [IdleBatch EXCEPT !.pc = "startExtraction",
                                             !.list = list,
                                             !.i = 1,
                                             !.eligible = KeysIn(server, "uploaded"),
                                             !.asked = <<list[1]>>]]
  /\ UNCHANGED <<page, server, orch, rejects, localVars, stats>>

\* lines 342-356: startExtraction answers or throws (the loop of the later
\* page is the same)
StartExtractionReturn2(b) ==
  /\ page = "extract2"
  /\ StartExtractionReturn(b)

\* lines 368-374: the keys the cleanup deletes from the set, read from the
\* papers of the render that created the interval
Cleaned(u) ==
  {u.papers[i].oss_key :
     i \in {j \in 1..Len(u.papers) :
              /\ u.papers[j].oss_key \in u.processingOssKeys
              /\ u.papers[j].status # "parsing"
              /\ u.papers[j].status # "downloading"}}

\* lines 363-380: the 3 s interval fires (it is set again on each new papers
\* array, so it reads the papers of the current render)
CleanupProcessing ==
  /\ page = "extract2"
  /\ ui' = [ui EXCEPT !.processingOssKeys = @ \ Cleaned(ui)]
  /\ UNCHANGED <<page, server, orch, batch, rejects, localVars, stats>>

\* ------------------------------------------------------ specifications
\* A record as an earlier session of the page can have left it.
StoredRecord(k, st) ==
  CASE st = "uploaded"    -> PaperInfo(k, st, NoTask, None, None)
    [] st = "parsing"     -> PaperInfo(k, st, NoTask, None, None)
    [] st = "downloading" -> PaperInfo(k, st, OldTask, None, None)
    [] st = "extracted"   -> PaperInfo(k, st, OldTask, Markdown, None)
    [] st = "error"       -> PaperInfo(k, st, NoTask, None, NetError)

StoredStatuses == {"uploaded", "parsing", "downloading", "extracted", "error"}

\* The page before its mount effects, over any store of up to MaxDocs records.
InitPage(stores) ==
  /\ store \in stores
  /\ papers = <<>>
  /\ processingPapers = {}
  /\ error = None
  /\ mounted = FALSE
  /\ timer = [set |-> FALSE, payload |-> <<>>]
  /\ run = [r \in Runs |-> IdleRun]
  /\ jobs = [t \in TaskIds |-> NewJob]
  /\ page = "mineru"
  /\ server = <<>>
  /\ orch = [k \in ServerKeys |-> NoRun]
  /\ ui = IdleUi
  /\ batch = [b \in Batches |-> IdleBatch]
  /\ rejects = 0
  /\ stats = NoStats

\* An API page before its first load, over a backend store.
InitApi(p, servers) ==
  /\ page = p
  /\ server \in servers
  /\ orch = [k \in ServerKeys |-> NoRun]
  /\ ui = IdleUi
  /\ batch = [b \in Batches |-> IdleBatch]
  /\ rejects = 0
  /\ stats = NoStats
  /\ store = <<>>
  /\ papers = <<>>
  /\ processingPapers = {}
  /\ error = None
  /\ mounted = FALSE
  /\ timer = [set |-> FALSE, payload |-> <<>>]
  /\ run = [r \in Runs |-> IdleRun]
  /\ jobs = [t \in TaskIds |-> NewJob]
  /\ patience = 0

\* The backend stores of the given sizes: the first MaxDocs records in any of
\* the statuses, the others in status rest.
Servers(sizes, statuses, rest) ==
  UNION { { [k \in 1..n |-> Document(k, IF k <= MaxDocs THEN st[k] ELSE rest)]
            : st \in [1..Min(n, MaxDocs) -> statuses] }
          : n \in sizes }

Stores ==
  UNION { { [k \in 1..n |-> StoredRecord(k, st[k])] : st \in [1..n -> StoredStatuses] }
          : n \in 0..MaxDocs }

UploadedStores ==
  { [k \in 1..n |-> StoredRecord(k, "uploaded")] : n \in 1..MaxDocs }

Init == InitPage(Stores) /\ patience = MaxPending

Next ==
  \/ MountEffects
  \/ TimerFire
  \/ Click
  \/ \E r \in Runs : ParseReturn(r)
  \/ \E r \in Runs : PollReturn(r)
  \/ \E r \in Runs : PollCheck(r)
  \/ \E r \in Runs : DownloadReturn(r)
  \/ \E r \in Runs : MarkdownReturn(r)
  \/ \E r \in Runs : DeleteReturn(r)

Spec == Init /\ [][Next]_vars

\* The page when the auto-start timer fires before any click, against a
\* service that may answer "pending" for ever.
InitAuto == InitPage(UploadedStores) /\ patience = maxAttempts + 1

NextAuto ==
  \/ MountEffects
  \/ TimerFire
  \/ ParseReturn("timer")
  \/ PollReturn("timer")
  \/ PollCheck("timer")
  \/ DownloadReturn("timer")
  \/ MarkdownReturn("timer")
  \/ DeleteReturn("timer")

SpecAuto == InitAuto /\ [][NextAuto]_vars

\* The page over uploaded records with the start button clicked before or
\* after the auto-start timer fires, against a service that answers early.
InitRace ==
  /\ InitPage({ [k \in 1..RaceDocs |-> StoredRecord(k, "uploaded")] })
  /\ patience = MaxPending

SpecRace == InitRace /\ [][Next]_vars

\* The record store on its own, called by any client with any arguments of
\* the declared types: no page is rendered, the store starts empty.
\* addPapers takes PaperInfo[] (new uploads of any keys, repeats allowed),
\* updatePaper takes Partial<PaperInfo> (a new status, or the fields that
\* identify the upload, oss_key included).
NewRecords == { PaperInfo(k, "uploaded", NoTask, None, None) : k \in Keys }

AddInputs == {<<>>} \cup { <<p>> : p \in NewRecords } \cup { <<p, q>> : p, q \in NewRecords }

Updates ==
  { [status |-> st] : st \in PaperStatus }
  \cup { [oss_key |-> k, uploaded_at |-> k] : k \in Keys }

InitStore == InitApi(None, {<<>>})

AddPapers(new) ==
  /\ page = None
  /\ store' = addPapers(store, new)
  /\ stats' = NoStats
  /\ UNCHANGED <<papers, processingPapers, error, mounted, timer, run, jobs, patience, apiVars>>

UpdatePaper(ossKey, updates) ==
  /\ page = None
  /\ store' = updatePaper(store, ossKey, updates)
  /\ stats' = NoStats
  /\ UNCHANGED <<papers, processingPapers, error, mounted, timer, run, jobs, patience, apiVars>>

DeletePaper(ossKey) ==
  /\ page = None
  /\ store' = deletePaper(store, ossKey)
  /\ stats' = NoStats
  /\ UNCHANGED <<papers, processingPapers, error, mounted, timer, run, jobs, patience, apiVars>>

\* A caller reads the statistics; it holds them until the next call.
GetStatusStats ==
  /\ page = None
  /\ stats = NoStats
  /\ stats' = getStatusStats(store)
  /\ UNCHANGED <<localVars, apiVars>>

NextStore ==
  \/ GetStatusStats
  \/ \E new \in AddInputs : AddPapers(new)
  \/ \E k \in Keys : \E updates \in Updates : UpdatePaper(k, updates)
  \/ \E k \in Keys : DeletePaper(k)

SpecStore == InitStore /\ [][NextStore]_vars

\* A batch over the local extraction page (the timer's run) or over the
\* analysis page (one invocation of handleStartAllAnalysis at a time),
\* against a service that answers each job early.
InitBatch ==
  \/ InitPage(UploadedStores) /\ patience = MaxPending
  \/ InitApi("deepseek", Servers(0..MaxDocs, {"uploaded", "extracted", "done"}, "extracted"))

NextBatch ==
  \/ NextAuto
  \/ DeepSeekMount
  \/ DeepSeekPoll
  \/ StartAllAnalysis(1)
  \/ ExtractedPapersReturn(1)
  \/ StartAnalysisReturn(1)
  \/ PacingDone(1)
  \/ RefreshReturn(1)
  \/ \E k \in ApiKeys : OrchStep(k)

SpecBatch == InitBatch /\ [][NextBatch]_vars

\* The analysis page while it stays mounted: every request is answered in
\* the end, every timer fires (the 2 s refresh, the 500 ms pacing), and every
\* orchestration of the backend takes its next step.
InitAnalysisPage ==
  InitApi("deepseek", Servers(0..MaxDocs, {"uploaded", "extracted", "done"}, "extracted"))

NextAnalysisPage ==
  \/ DeepSeekMount
  \/ DeepSeekPoll
  \/ \E k \in ApiKeys : handleStartAnalysis(k)
  \/ StartAllAnalysis(1)
  \/ ExtractedPapersReturn(1)
  \/ StartAnalysisReturn(1)
  \/ PacingDone(1)
  \/ RefreshReturn(1)
  \/ \E k \in ApiKeys : OrchStep(k)

SpecAnalysisPage ==
  /\ InitAnalysisPage
  /\ [][NextAnalysisPage]_vars
  /\ WF_vars(DeepSeekMount)
  /\ WF_vars(DeepSeekPoll)
  /\ WF_vars(ExtractedPapersReturn(1))
  /\ WF_vars(StartAnalysisReturn(1))
  /\ WF_vars(PacingDone(1))
  /\ WF_vars(RefreshReturn(1))
  /\ \A k \in ApiKeys : WF_vars(OrchStep(k))

\* The extraction page over the API with a store of one page or of more
\* than one page, while the started orchestrations wait for their jobs.
InitPaged ==
  InitApi("extract",
          Servers((0..MaxDocs) \cup ((pageSize + 1)..(pageSize + MaxDocs)),
                  {"uploaded", "extracted"}, "uploaded"))

NextPaged ==
  \/ ExtractMount
  \/ ExtractPoll
  \/ \E p \in Pages : handlePageChange(p)
  \/ \E b \in Batches : StartAllExtraction(b)
  \/ \E b \in Batches : StartExtractionReturn(b)

SpecPaged == InitPaged /\ [][NextPaged]_vars

\* The extraction page over the API with the orchestrations of the backend
\* and the stop button.
InitStop == InitApi("extract", Servers(1..MaxDocs, {"uploaded", "extracted"}, "uploaded"))

NextStop ==
  \/ ExtractMount
  \/ ExtractPoll
  \/ \E b \in Batches : StartAllExtraction(b)
  \/ \E b \in Batches : StartExtractionReturn(b)
  \/ \E k \in ApiKeys : handleStopParse(k)
  \/ \E k \in ApiKeys : OrchStep(k)

SpecStop == InitStop /\ [][NextStop]_vars

\* The earlier extraction page over the API with the orchestrations of the
\* backend.
InitCleanup == InitApi("extract2", Servers(1..MaxDocs, {"uploaded", "extracted"}, "uploaded"))

NextCleanup ==
  \/ Extract2Load
  \/ \E b \in Batches : StartAllExtraction2(b)
  \/ \E b \in Batches : StartExtractionReturn2(b)
  \/ CleanupProcessing
  \/ \E k \in ApiKeys : OrchStep(k)

SpecCleanup == InitCleanup /\ [][NextCleanup]_vars

\* The analysis page over an unchanging backend store of up to two full
\* pages of getAllExtractedPapers, up to the return of the listing.
InitListing ==
  InitApi("deepseek",
          Servers((0..MaxDocs) \cup {limit, limit + MaxDocs, 2 * limit},
                  {"uploaded", "extracted", "done"}, "extracted"))

NextListing ==
  \/ DeepSeekMount
  \/ DeepSeekPoll
  \/ StartAllAnalysis(1)
  \/ ExtractedPapersReturn(1)

SpecListing == InitListing /\ [][NextListing]_vars

\* -------------------------------------------------------- properties
\* Run r is active and key k is the paper it works on or one still to come.
Covers(r, k) ==
  /\ Active(r)
  /\ \E j \in run[r].i..Len(run[r].targets) : run[r].targets[j] = k

\* A run is inside the polling loop of job t.
Polling(t) == \E r \in Runs : run[r].taskId = t /\ run[r].pc \in {"poll", "polled"}

\* The edges of the status state machine a run may take.
LegalEdge(a, b) ==
  <<a, b>> \in { <<"uploaded", "parsing">>, <<"parsing", "parsing">>,
                 <<"parsing", "downloading">>, <<"downloading", "extracted">>,
                 <<"parsing", "error">>, <<"downloading", "error">> }

\* C1: during an extraction run every change of a document's stored status
\* follows an edge of the state machine (uploaded -> parsing -> downloading
\* -> extracted, parsing or downloading -> error); in particular the status
\* never becomes extracted before it has been downloading.
C1_StatusFollowsEdges ==
  [][\A k \in Keys :
       (/\ Rec(k).status # "absent"
        /\ Rec(k)'.status # "absent"
        /\ Rec(k)'.status # Rec(k).status)
       => LegalEdge(Rec(k).status, Rec(k)'.status)]_vars

\* C2: at every instant at most one extraction run is active for a given
\* document key, under every interleaving of the auto-start timer and clicks
\* of the start button, and no key gets a second job while a run covers it.
C2_OneRunPerKey ==
  \A k \in Keys : Cardinality({r \in Runs : Covers(r, k)}) <= 1

\* C3: a job whose status query never returns a terminal state is queried
\* exactly maxAttempts times; then the polling stops, the document is in
\* status error with the timeout reason, and the job is never queried again.
C3_TimeoutAfterMaxAttempts ==
  \A t \in TaskIds :
    /\ jobs[t].queries <= maxAttempts
    /\ (jobs[t].last = "pending" /\ ~Polling(t)) =>
         /\ jobs[t].queries = maxAttempts
         /\ Rec(t[2]).status = "error"
         /\ Rec(t[2]).error = TaskTimeout

C3_Witness ==
  \E t \in TaskIds :
    /\ jobs[t].last = "pending"
    /\ ~Polling(t)
    /\ jobs[t].queries = maxAttempts
    /\ Rec(t[2]).error = TaskTimeout

\* C4: when the status query reports failure on any poll, the run stops
\* polling and never starts the download, the document is in status error
\* with the failure reason the job reported, and its key has left the
\* processing set.
C4_JobFailureRecorded ==
  \A t \in TaskIds :
    (jobs[t].last = "error" /\ NoSync) =>
      /\ ~Polling(t)
      /\ ~jobs[t].downloaded
      /\ Rec(t[2]).status = "error"
      /\ Rec(t[2]).error = FailureReason(jobs[t].err_msg)
      /\ t[2] \notin processingPapers

\* The number of times key k occurs in a sequence of keys.
Count(seq, k) == Cardinality({i \in 1..Len(seq) : seq[i] = k})

\* The paper at position j of a batch has failed and is not the last one.
FailedBefore(list, failed, j) == j < Len(list) /\ list[j] \in failed

\* C5: in a batch start a failure to start or to process one document does
\* not halt the batch: as soon as a document of the batch has failed the
\* next one is attempted, a batch that has left its loop has attempted every
\* one of its documents, and the step in which a document fails leaves the
\* status of every other document as it was.
C5_FailureIsolated ==
  /\ [](/\ \A r \in Runs :
            /\ run[r].pc = "done" => run[r].asked = run[r].targets
            /\ \A j \in 1..Len(run[r].targets) :
                 FailedBefore(run[r].targets, run[r].failed, j) =>
                   /\ Len(run[r].asked) > j
                   /\ run[r].asked[j + 1] = run[r].targets[j + 1]
        /\ \A b \in Batches :
            /\ batch[b].pc = "refresh" => batch[b].asked = batch[b].list
            /\ \A j \in 1..Len(batch[b].list) :
                 FailedBefore(batch[b].list, batch[b].failed, j) =>
                   /\ Len(batch[b].asked) > j
                   /\ batch[b].asked[j + 1] = batch[b].list[j + 1])
  /\ [][/\ \A r \in Runs : \A k \in Keys :
            (k \in run'[r].failed /\ k \notin run[r].failed) =>
              \A other \in Keys \ {k} : Rec(other)'.status = Rec(other).status
        /\ \A k \in ServerKeys :
            (\/ \E b \in Batches : k \in batch'[b].failed /\ k \notin batch[b].failed
             \/ orch[k].pc # "none" /\ orch'[k].pc = "none" /\ orch'[k].outcome = "failed")
            => \A other \in ServerKeys \ {k} : Doc(other)'.status = Doc(other).status]_vars

C5_Witness ==
  \E b \in Batches :
    /\ batch[b].pc = "refresh"
    /\ \E j \in 1..Len(batch[b].list) :
         /\ FailedBefore(batch[b].list, batch[b].failed, j)
         /\ batch[b].asked[j + 1] = batch[b].list[j + 1]
         /\ Doc(batch[b].list[j + 1]).status \in {"analyzing", "done"}

\* C6: a batch start issues exactly one start request for every document of
\* the record store that is in the source state of the transition when the
\* batch handler is invoked, and none for any other document, however many
\* documents the store holds and whichever list page is displayed: when the
\* handler returns, its requests are those.
C6_OneStartPerEligible ==
  [][\A b \in Batches :
       (batch[b].pc # "idle" /\ batch'[b].pc = "idle") =>
         \A k \in ServerKeys :
           Count(batch[b].asked, k) = IF k \in batch[b].eligible THEN 1 ELSE 0]_vars

\* C7: after a restart every document whose stored status is parsing or
\* downloading is resumed: it is in the set the mount effect passes to
\* handleStartParse (and so is worked on by a run until it is extracted or
\* in error).
C7_InterruptedResumed ==
  mounted =>
    \A k \in Keys :
      Rec(k).status \in {"parsing", "downloading"} =>
        \/ timer.set /\ k \in Range(timer.payload)
        \/ \E r \in Runs : Covers(r, k)

C9_ArtifactIffExtracted ==
  \A i \in 1..Len(store) :
    (store[i].markdown_content # None)
      <=> (store[i].status \in {"extracted", "analyzing", "done"})

\* C10: no record with a status other than error carries an error message.
C10_ErrorClearedOutsideError ==
  \A i \in 1..Len(store) :
    store[i].status # "error" => store[i].error = None

\* C11: a record is removed from the record store only by an explicit
\* delete the user asks for; no step of an extraction run, successful or
\* failed, removes a record, so a document that was extracted stays listed
\* with status extracted.
C11_RunNeverRemovesRecord ==
  [][\A k \in Keys : Rec(k).status # "absent" => Rec(k)'.status # "absent"]_vars

\* C12: in a batch start every two consecutive start requests are separated
\* by one pacing delay, whether the earlier request succeeded or failed, in
\* the analysis batch and in the extraction batch: a step that issues the
\* second or a later request of a batch is the end of a pacing delay.
C12_PacedBetweenStarts ==
  [][\A b \in Batches :
       (Len(batch[b].asked) >= 1 /\ Len(batch'[b].asked) > Len(batch[b].asked))
         => batch[b].pc = "pace"]_vars

\* C13: the poller never retries a failed status query: the first status
\* query that throws ends the polling of that job, the step in which it
\* throws puts the document in status error with the message of the
\* exception, and no further status query is issued for that job.
C13_NoRetryOfFailedQuery ==
  /\ [](\A t \in TaskIds : jobs[t].last = "threw" => ~Polling(t))
  /\ [][\A t \in TaskIds :
          /\ jobs[t].last = "threw" => jobs'[t] = jobs[t]
          /\ (jobs[t].last # "threw" /\ jobs'[t].last = "threw") =>
               /\ Rec(t[2])'.status = "error"
               /\ Rec(t[2])'.error = NetError]_vars

\* C14: within one document's extraction run the steps happen strictly in
\* the order submit, poll until terminal, download and extract, fetch the
\* content, persist the extracted record: a step is started only with the
\* previous one completed successfully (a job is queried only once
\* submitted, downloaded only after its query answered done, its content
\* fetched only after the download, the record persisted only after the
\* fetch), and once a step of a document has failed the run does nothing
\* more for that document.
C14_StepsInOrder ==
  /\ [](\A t \in TaskIds :
          /\ jobs[t].queries > 0 => jobs[t].submitted
          /\ jobs[t].downloaded => (jobs[t].submitted /\ jobs[t].last = "done")
          /\ jobs[t].fetched => jobs[t].downloaded
          /\ jobs[t].persisted => jobs[t].fetched)
  /\ [][\A r \in Runs : \A k \in Keys :
          k \in run[r].failed => jobs'[<<r, k>>] = jobs[<<r, k>>]]_vars

C14_Witness ==
  \E r \in Runs : \E k, other \in Keys :
    /\ jobs[<<r, k>>].persisted
    /\ other \in run[r].failed
    /\ jobs[<<r, other>>].downloaded
    /\ ~jobs[<<r, other>>].fetched

\* C15: the extraction runs of the documents of a batch are concurrent: a
\* slow or never-finishing document does not delay the submission of the
\* other documents, so while the job of one document is still being polled
\* after a non-terminal answer, the job of every later document of the
\* batch has been submitted as well.
C15_SlowDocumentDoesNotDelay ==
  \A r \in Runs :
    (/\ run[r].pc \in {"poll", "polled"}
     /\ jobs[run[r].taskId].last = "pending")
    => \A j \in (run[r].i + 1)..Len(run[r].targets) :
         run[r].targets[j] \in Range(run[r].asked)

\* C16: a document's status is set to parsing only as the first step of its
\* own run, directly before its job is submitted: while an earlier document
\* of the batch is being submitted, polled or downloaded, a waiting document
\* keeps status uploaded (and so only a document whose submission has been
\* issued is in status parsing).
C16_WaitingStaysUploaded ==
  \A r \in Runs :
    Active(r) =>
      \A j \in (run[r].i + 1)..Len(run[r].targets) :
        /\ Rec(run[r].targets[j]).status = "uploaded"
        /\ run[r].targets[j] \notin Range(run[r].asked)

\* C17: each extraction run submits exactly one job for its document, and
\* every status query, the download and the fetch of that run use the job
\* id that submission returned, never an id another run has stored: a run
\* asks for a document at most once, and whatever is asked of a submitted
\* job is asked by the run that submitted it, while it works on that job.
C17_OwnJobIdOnly ==
  /\ [](\A r \in Runs : \A k \in Keys : Count(run[r].asked, k) <= 1)
  /\ [][\A t \in TaskIds :
          (jobs[t].submitted /\ jobs'[t] # jobs[t]) =>
            /\ run[t[1]].taskId = t
            /\ Paper(t[1]) = t[2]]_vars

C17_Witness ==
  \E k \in Keys :
    /\ Polling(<<"timer", k>>)
    /\ jobs[<<"timer", k>>].queries >= 1
    /\ jobs[<<"click", k>>].submitted
    /\ Rec(k).task_id = <<"click", k>>

\* No two records of the store have the same oss_key.
UniqueKeys(s) == \A i, j \in 1..Len(s) : s[i].oss_key = s[j].oss_key => i = j

\* C18: after any sequence of addPapers, updatePaper and deletePaper calls
\* the record store holds at most one record per oss_key, and addPapers
\* never overwrites or resets an existing record that has the key of a
\* newly added one: every stored record is still there, as it was, after
\* an addPapers of any list.
C18_OneRecordPerKey ==
  /\ UniqueKeys(store)
  /\ \A new \in AddInputs : \A i \in 1..Len(store) :
       store[i] \in Range(addPapers(store, new))

\* The number of records of a store with a given status.
CountStatus(s, st) == Cardinality({i \in 1..Len(s) : s[i].status = st})

\* C19: getStatusStats returns for every status the number of stored records
\* with that status and total equal to the number of stored records, so
\* total is the sum of the eight per-status counts (every stored record
\* carries one of the eight statuses).
C19_StatsCountEveryRecord ==
  stats # NoStats =>
    /\ stats.total = Len(store)
    /\ \A st \in PaperStatus : stats[st] = CountStatus(store, st)
    /\ stats.total = stats.uploading + stats.uploaded + stats.parsing
                       + stats.downloading + stats.extracted + stats.analyzing
                       + stats.done + stats.error

C19_Witness ==
  /\ stats # NoStats
  /\ stats.total = MaxDocs
  /\ stats.done >= 1
  /\ stats.error >= 1

\* C20: if the status query answers done on attempt k <= maxAttempts, the
\* attempt maxAttempts included, the run proceeds to the download step (when
\* the answer carries the url of the bundle) and the document is not put in
\* status error with the timeout reason: only a job still not terminal after
\* maxAttempts queries is timed out.
C20_DoneOnLastAttemptDownloads ==
  [][\A r \in Runs :
       (/\ run[r].pc = "polled"
        /\ run[r].state = "done"
        /\ run[r].attempts <= maxAttempts
        /\ run'[r] # run[r])
       => /\ run[r].zip => run'[r].pc = "download"
          /\ ~(/\ Rec(Paper(r))'.status = "error"
               /\ Rec(Paper(r))'.error = TaskTimeout)]_vars

\* C21: after a successful extraction the record is removed from the store
\* only once the deletion of the blob has succeeded; when that deletion
\* fails the record stays in the store with status extracted and its
\* content, the document is not moved to error, and its key is released
\* from the processing set all the same.
C21_RemovedOnlyAfterBlobDeleted ==
  [][/\ \A k \in Keys :
          (Rec(k).status # "absent" /\ Rec(k)'.status = "absent") =>
            \E r \in Runs : /\ run[r].pc = "delete"
                            /\ Paper(r) = k
                            /\ jobs'[<<r, k>>].blob = "deleted"
     /\ \A t \in TaskIds :
          (jobs[t].blob = None /\ jobs'[t].blob = "failed") =>
            /\ Rec(t[2])'.status = "extracted"
            /\ Rec(t[2])'.markdown_content = Markdown
            /\ t[2] \notin processingPapers']_vars

\* C22: at most one analysis batch runs at a time: from the moment
\* handleStartAllAnalysis is invoked until it has issued its last start
\* request the start-all button is disabled (so no second, overlapping batch
\* can be started by a click).
C22_ButtonDisabledDuringBatch ==
  page = "deepseek" =>
    \A b \in Batches :
      (\/ batch[b].pc = "list"
       \/ /\ batch[b].pc \in {"startAnalysis", "pace"}
          /\ batch[b].i < Len(batch[b].list))
      => StartAllDisabled

\* C23: every key that handleStartAnalysis or handleStartAllAnalysis adds
\* to processingOssKeys is removed again once its start request has
\* completed, successfully or not: while the page stays mounted a key that
\* is in the set leaves it in the end (so the set becomes empty and the
\* start-all button does not stay disabled for ever).
C23_ProcessingKeyReleased ==
  \A k \in 1..MaxDocs :
    (k \in ui.processingOssKeys) ~> (k \notin ui.processingOssKeys)


\* The extraction of document k has been asked for and has not ended: the
\* start request is in flight or the orchestration holds a TaskHandle.
ExtractionPending(k) ==
  \/ \E b \in Batches : /\ batch[b].pc = "startExtraction"
                        /\ batch[b].list[batch[b].i] = k
  \/ k \in ServerKeys /\ orch[k].pc # "none"

\* C24: a step of the periodic cleanup never removes from processingOssKeys
\* the key of a document whose start request is in flight or whose
\* extraction is running.
C24_CleanupKeepsPendingKeys ==
  [][CleanupProcessing =>
       \A k \in ui.processingOssKeys \ ui'.processingOssKeys :
         ~ExtractionPending(k)]_vars

\* C25: when a handleStartAllAnalysis in which the start request of at least
\* one document failed returns (after its final list refresh), the error
\* state of the page names a document whose start failed.
C25_BatchErrorSurvives ==
  [][\A b \in Batches :
       (batch[b].pc = "refresh" /\ batch'[b].pc = "idle" /\ batch[b].failed # {})
         => /\ ui'.error.kind = "analysis start failed"
            /\ ui'.error.key \in batch[b].failed]_vars

\* C26: when a handleStartParse returns, processingPapers contains none of
\* its target keys and no target document is left in status parsing or
\* downloading: each is in status error, in status extracted, or has been
\* removed.
C26_ReturnsWithTargetsSettled ==
  [][\A r \in Runs :
       (run[r].pc # "done" /\ run'[r].pc = "done") =>
         \A k \in Keys :
           (\E j \in 1..Len(run[r].targets) : run[r].targets[j] = k) =>
             /\ k \notin processingPapers'
             /\ Rec(k)'.status \in {"error", "extracted", "absent"}]_vars

\* The keys of the documents of status extracted, in the order of the store.
ExtractedKeys == KeysOf(ListDocuments(server, {"extracted"}, 0, Len(server)).items)

\* C27: with an unchanging record store getAllExtractedPapers terminates
\* and returns every document of status extracted exactly once, for every
\* number of such documents; if a page request fails it stops and returns
\* the documents fetched so far. While it runs it has fetched the first
\* offset documents and offset does not exceed their number; when it
\* returns, the list is the whole list, or after a failed request the
\* part fetched before it.
C27_ListsEveryExtractedOnce ==
  /\ [](\A b \in Batches :
          batch[b].pc = "list" =>
            /\ batch[b].offset <= Len(ExtractedKeys)
            /\ batch[b].list = SubSeq(ExtractedKeys, 1, batch[b].offset))
  /\ [][\A b \in Batches :
          (batch[b].pc = "list" /\ batch'[b].pc # "list") =>
            LET returned == IF batch'[b].pc = "startAnalysis"
                              THEN batch'[b].list ELSE <<>>
            IN  IF rejects' = rejects
                  THEN returned = ExtractedKeys
                  ELSE returned = batch[b].list]_vars

\* The store holds exactly one full page: the listing returned all of it
\* after a second request that was answered with an empty page.
C27_Witness ==
  /\ page = "deepseek"
  /\ batch[1].pc = "startAnalysis"
  /\ batch[1].offset = limit
  /\ Len(batch[1].list) = limit
  /\ batch[1].list = ExtractedKeys

\* Store t is store s with the given fields merged over one record of key k
\* and nothing else changed, or s itself when s has no record of key k.
OnlyThatRecordMerged(s, t, k, updates) ==
  /\ Len(t) = Len(s)
  /\ IF \A i \in 1..Len(s) : s[i].oss_key # k
       THEN t = s
       ELSE \E i \in 1..Len(s) :
              /\ s[i].oss_key = k
              /\ DOMAIN t[i] = DOMAIN s[i]
              /\ \A f \in DOMAIN s[i] :
                   t[i][f] = IF f \in DOMAIN updates THEN updates[f] ELSE s[i][f]
              /\ \A j \in 1..Len(s) : j # i => t[j] = s[j]

\* C28: updatePaper(key, updates) changes only the record with that key,
\* merging the given fields over it and leaving every other record, the
\* number of records and their order unchanged; when no record has that key
\* it changes nothing and creates no record.
C28_UpdateChangesOneRecord ==
  \A k \in Keys : \A updates \in Updates :
    OnlyThatRecordMerged(store, updatePaper(store, k, updates), k, updates)

\* An update has changed the first of two records and left the second.
C28_Witness ==
  /\ Len(store) = 2
  /\ store[1].status = "done"
  /\ store[2].status = "uploaded"
  /\ store[1].oss_key # store[2].oss_key

\* C29: deletePaper and addPapers are idempotent over the record store:
\* for every store the calls build and every argument, deletePaper(key)
\* applied twice yields the store of one application, and addPapers(list)
\* applied twice yields the store of one application.
C29_DeleteAndAddIdempotent ==
  /\ \A k \in Keys :
       deletePaper(deletePaper(store, k), k) = deletePaper(store, k)
  /\ \A new \in AddInputs :
       addPapers(addPapers(store, new), new) = addPapers(store, new)

\* The store holds two records of one key, so that an addPapers of any list
\* changes it (the Map keeps one record per key) and a deletePaper of that
\* key removes both.
C29_Witness ==
  /\ Len(store) = 2
  /\ store[1].oss_key = store[2].oss_key
  /\ addPapers(store, <<>>) # store
  /\ addPapers(addPapers(store, <<>>), <<>>) = addPapers(store, <<>>)
  /\ deletePaper(store, store[1].oss_key) = <<>>

====
